---------------------------- MODULE Spec2Model ----------------------------
(***************************************************************************)
(* Persisted, poll-based work queue of defihelper-scanner:                 *)
(* QueueService (push / handle / resetAndRestart / createBroker) and the   *)
(* Broker poll loop, over one shared task table.                           *)
(*                                                                         *)
(* QueueService.handle is an async function; its awaits are the points    *)
(* where other pollers and clients run, so it is one action per store     *)
(* operation:  handleSelect -> handleClaim -> handleDispatch               *)
(* (handleDispatch is the handler's run with the write of its outcome).    *)
(* What Broker.handle does with the value handle() returns touches no     *)
(* shared state but isStarted, and is part of the step that returns.       *)
(* A "flow" is one running Broker.handle loop (each start() begins one).   *)
(***************************************************************************)
EXTENDS Integers, Sequences, FiniteSets, TLC

\* ------------------------------------------------------------- bounds --
MaxTime   == 1      \* the clock runs 0..MaxTime
MaxTasks  == 1      \* rows ever inserted
MaxResets == 1      \* resetAndRestart calls
BatchSize == 2      \* rows in the table when the ordering scenario begins

\* ---------------------------------------------------------- constants --
\* the Handler Registry (import * as Handlers from "../../queue")
Handlers == {"callCallBack"}
\* a name that is no key of Handlers
Unregistered == "missing"
HandlerNames == Handlers \cup {Unregistered}

Brokers == {"b1", "b2"}
Slots   == {1, 2}
Flows   == Brokers \X Slots
BrokerOf(f) == f[1]

Params == {"p1"}

\* TaskStatus
Pending == "Pending"
Process == "Process"
Done    == "Done"
Error   == "Error"

\* a Task row
Task(id, handler, params, startAt, status, info, error, retries, createdAt, updatedAt) ==
  [id |-> id, handler |-> handler, params |-> params, startAt |-> startAt,
   timeout |-> "null", status |-> status, info |-> info, error |-> error,
   retries |-> retries, createdAt |-> createdAt, updatedAt |-> updatedAt]

\* value of a local that holds no row
NoTask == Task(0, "", "", 0, "", "", "", 0, 0, 0)

VARIABLES
  now,        \* the wall clock read by new Date()
  store,      \* the task table: sequence of rows, row i has id i
  held,       \* held[i]: the Task value push or the last resetAndRestart of
              \*   row i returned to its caller
  nResets,    \* resetAndRestart calls so far
  resetFrom,  \* history: "terminal" when the last resetAndRestart hit a
              \*   row stored as Done or Error, "" otherwise
  broker,     \* broker[b]: "absent", "created" or "threw" (createBroker threw)
  options,    \* options[b].handler as passed to createBroker
  isStarted,  \* Broker.isStarted
  pc,         \* pc[f]: where flow f is: "none" (no loop), "select", "claim",
              \*   "run" (inside service.handle), "sleep" (the backoff timer),
              \*   "rejected" (handle() threw: the loop's promise rejected)
  current,    \* handle(): const current
  preRetries  \* history: stored retries of the row just before f's claim

vars == <<now, store, held, nResets, resetFrom, broker, options, isStarted,
          pc, current, preRetries>>

storeVars  == <<store, held, nResets, resetFrom>>
brokerVars == <<broker, options, isStarted>>
flowVars   == <<pc, current, preRetries>>

Ids == DOMAIN store


\* --------------------------------------------------- Handler Registry --
\* hasHandler(name): name is a key of the registry
hasHandler(name) == name \in Handlers

\* ----------------------------------------------- BrokerOptions.handler --
\* options.handler as createBroker receives it at run time: absent, a
\* HandleOptions object, or (types are erased) a string.
OptUndefined == [kind |-> "undefined", name |-> "", hasInclude |-> FALSE,
                 include |-> {}, hasExclude |-> FALSE, exclude |-> {}]
OptString(n) == [OptUndefined EXCEPT !.kind = "string", !.name = n]
OptInclude(S) == [OptUndefined EXCEPT !.kind = "object", !.hasInclude = TRUE,
                  !.include = S]
OptExclude(S) == [OptUndefined EXCEPT !.kind = "object", !.hasExclude = TRUE,
                  !.exclude = S]
OptBoth(S, T) == [OptInclude(S) EXCEPT !.hasExclude = TRUE, !.exclude = T]

\* the option values brokers are created with
OptionValues ==
  { OptUndefined,
    OptInclude({"callCallBack"}), OptExclude({"callCallBack"}),
    OptInclude({}), OptInclude({Unregistered}),
    OptBoth({"callCallBack", Unregistered}, {Unregistered}),
    OptString("callCallBack"), OptString(Unregistered) }

\* handle(): if (options.include && options.include.length > 0)
IncludeApplies(o) == o.kind = "object" /\ o.hasInclude /\ o.include # {}
\* handle(): if (options.exclude && options.exclude.length > 0)
ExcludeApplies(o) == o.kind = "object" /\ o.hasExclude /\ o.exclude # {}

\* Matches without the startAt condition
MatchesAnyTime(row, o, t) ==
  /\ row.status = Pending
  /\ (IncludeApplies(o) => row.handler \in o.include)
  /\ (ExcludeApplies(o) => row.handler \notin o.exclude)

\* Matches without the whereIn on include
MatchesNoInclude(row, o, t) ==
  /\ row.status = Pending
  /\ row.startAt <= t
  /\ (ExcludeApplies(o) => row.handler \notin o.exclude)

\* the where-clause of handle()'s select, on one row
Matches(row, o, t) ==
  /\ row.status = Pending
  /\ row.startAt <= t
  /\ (IncludeApplies(o) => row.handler \in o.include)
  /\ (ExcludeApplies(o) => row.handler \notin o.exclude)

\* the select without its orderBy
FirstUnordered(o, t) == {i \in Ids : Matches(store[i], o, t)}

\* .orderBy("startAt", "asc").limit(1).first(): the ids the query may
\* return (rows with equal startAt come in any order)
FirstByStartAt(o, t) ==
  LET M == {i \in Ids : Matches(store[i], o, t)}
  IN  {i \in M : \A j \in M : store[i].startAt <= store[j].startAt}

\* ------------------------------------------------- Execution Context --
\* failure values
ErrHandler    == [name |-> "Error", message |-> "CallBack not found"]
ErrNoHandler  == [name |-> "TypeError",
                  message |-> "Cannot read properties of undefined"]
NoError       == [name |-> "", message |-> ""]

\* string description of a failure value
Describe(e) == e.name \o ": " \o e.message

\* a success operation that leaves updatedAt as it was
ProcessDoneKeepsStamp(task, t) == [task EXCEPT !.status = Done, !.info = ""]

\* Process.done(): a new terminal task from the context's working copy
ProcessDone(task, t) ==
  [task EXCEPT !.status = Done, !.info = "", !.updatedAt = t]

\* Process.error(e)
ProcessError(task, e, t) ==
  [task EXCEPT !.status = Error, !.error = Describe(e), !.updatedAt = t]

\* ---------------------------------------------------------- handlers --
\* what a handler run may do
Choices == {"done", "error", "throw"}

\* Handlers[current.handler].default(process), process = new Process(cur)
Invoke(cur, choice, t) ==
  IF ~hasHandler(cur.handler)
    THEN [kind |-> "thrown", task |-> NoTask, error |-> ErrNoHandler]
  ELSE IF choice = "done"
    THEN [kind |-> "returned", task |-> ProcessDone(cur, t), error |-> NoError]
  ELSE IF choice = "error"
    THEN [kind |-> "returned", task |-> ProcessError(cur, ErrHandler, t),
          error |-> NoError]
  ELSE [kind |-> "thrown", task |-> NoTask, error |-> ErrHandler]

\* a try block that begins after the registry lookup
CaughtAfterLookup(cur, r) == hasHandler(cur.handler)

\* a dispatch with no catch
CaughtNone(cur, r) == FALSE

\* try { ... } catch (e) { ... }: which throws of the dispatch are caught
Caught(cur, r) == TRUE

\* an outcome write of the status column alone
SettleStatusOnly(cur, r, t) ==
  [cur EXCEPT !.status = IF r.kind = "returned" THEN r.task.status ELSE Error]

\* the task handle() persists for a dispatch result
Settle(cur, r, t) ==
  IF r.kind = "returned" THEN r.task ELSE ProcessError(cur, r.error, t)

\* -------------------------------------------------------------- Init --
Init ==
  /\ now = 0
  /\ store = << >>
  /\ held = << >>
  /\ nResets = 0
  /\ resetFrom = ""
  /\ broker = [b \in Brokers |-> "absent"]
  /\ options = [b \in Brokers |-> OptUndefined]
  /\ isStarted = [b \in Brokers |-> FALSE]
  /\ pc = [f \in Flows |-> "none"]
  /\ current = [f \in Flows |-> NoTask]
  /\ preRetries = [f \in Flows |-> 0]

\* time passes
Tick ==
  /\ now < MaxTime
  /\ now' = now + 1
  /\ UNCHANGED <<storeVars, brokerVars, flowVars>>

\* ------------------------------------------------------ QueueService --
\* push(handler, params, timeout = null, startAt): insert a Pending row
\* (startAt is the default, now, or a later time)
push(h, p, sa) ==
  /\ Len(store) < MaxTasks
  /\ LET task == Task(Len(store) + 1, h, p, sa, Pending, "", "", 0, now, now)
     IN  /\ store' = Append(store, task)
         /\ held' = Append(held, task)
  /\ UNCHANGED <<now, nResets, resetFrom, brokerVars, flowVars>>

\* the table after update(task).where("id", id)
Updated(tbl, id, task) ==
  [i \in DOMAIN tbl |-> IF tbl[i].id = id THEN task ELSE tbl[i]]

\* a reset that leaves the error field alone
RestartedKeepsError(task, t) ==
  [task EXCEPT !.status = Pending, !.startAt = t, !.updatedAt = t]

\* the row resetAndRestart(task) writes
Restarted(task, t) ==
  [task EXCEPT !.status = Pending, !.startAt = t, !.error = "",
               !.updatedAt = t]

\* the Task values a client may pass for row i: the value push or its last
\* resetAndRestart returned, or the row as just read from the table
Known(i) == {held[i], store[i]}

\* resetAndRestart(task)
resetAndRestart(task) ==
  /\ nResets < MaxResets
  /\ LET updated == Restarted(task, now)
     IN  /\ store' = Updated(store, updated.id, updated)
         /\ held' = [held EXCEPT ![updated.id] = updated]
  /\ nResets' = nResets + 1
  /\ resetFrom' = IF store[task.id].status \in {Done, Error}
                  THEN "terminal" ELSE ""
  /\ UNCHANGED <<now, brokerVars, flowVars>>

\* ------------------------------------------------------------ Broker --
\* a loop that ends after its first service.handle() call
LoopEnds(f) == "none"

\* a loop that does not look at isStarted
LoopAlways(f) == "select"

\* this.handle(): if (!this.isStarted) return; else call service.handle
Loop(f) == IF isStarted[BrokerOf(f)] THEN "select" ELSE "none"

\* a loop that never sleeps
AfterHandleNoBackoff(f, r) == Loop(f)

\* Broker.handle() once service.handle() resolved with r:
\* if (!res) sleep interval; this.handle()
AfterHandle(f, r) == IF r THEN Loop(f) ELSE "sleep"

\* the setTimeout(resolve, interval) fires
brokerWake(f) ==
  /\ pc[f] = "sleep"
  /\ pc' = [pc EXCEPT ![f] = Loop(f)]
  /\ UNCHANGED <<now, storeVars, brokerVars, current, preRetries>>

\* createBroker(options)
createBroker(b, o) ==
  /\ broker[b] = "absent"
  /\ IF o.kind = "string" /\ ~hasHandler(o.name)
       THEN /\ broker' = [broker EXCEPT ![b] = "threw"]
            /\ UNCHANGED options
       ELSE /\ broker' = [broker EXCEPT ![b] = "created"]
            /\ options' = [options EXCEPT ![b] = o]
  /\ UNCHANGED <<now, storeVars, isStarted, flowVars>>

\* start(): isStarted = true; this.handle() begins a loop
start(b) ==
  /\ broker[b] = "created"
  /\ \E s \in Slots :
       /\ pc[<<b, s>>] = "none"
       /\ \A s2 \in Slots : s2 < s => pc[<<b, s2>>] # "none"
       /\ pc' = [pc EXCEPT ![<<b, s>>] = "select"]
  /\ isStarted' = [isStarted EXCEPT ![b] = TRUE]
  /\ UNCHANGED <<now, storeVars, broker, options, current, preRetries>>

\* stop()
stop(b) ==
  /\ broker[b] = "created"
  /\ isStarted[b]
  /\ isStarted' = [isStarted EXCEPT ![b] = FALSE]
  /\ UNCHANGED <<now, storeVars, broker, options, flowVars>>

\* ------------------------------------------------ QueueService.handle --
\* handle(), first await: the select
handleSelect(f) ==
  /\ pc[f] = "select"
  /\ LET C == FirstByStartAt(options[BrokerOf(f)], now)
     IN  IF C = {}
           THEN \* if (!current) return false
                /\ pc' = [pc EXCEPT ![f] = AfterHandle(f, FALSE)]
                /\ UNCHANGED current
           ELSE \E i \in C :
                /\ current' = [current EXCEPT ![f] = store[i]]
                /\ pc' = [pc EXCEPT ![f] = "claim"]
  /\ UNCHANGED <<now, storeVars, brokerVars, preRetries>>

\* a claim matched on the id alone
ClaimMatchesId(row, cur) == row.id = cur.id

\* the claim's conditional update matches this row
ClaimMatches(row, cur) == row.id = cur.id /\ row.status = Pending

\* the row after the claim's update
Claimed(row) == [row EXCEPT !.status = Process, !.retries = row.retries + 1]

\* handle(), second await: update({status: Process}).increment('retries')
\*   .where({id: current.id, status: Pending})
handleClaim(f) ==
  /\ pc[f] = "claim"
  /\ LET hit  == {i \in Ids : ClaimMatches(store[i], current[f])}
         lock == Cardinality(hit)
     IN  /\ store' = [i \in Ids |-> IF i \in hit THEN Claimed(store[i])
                                               ELSE store[i]]
         /\ IF lock = 0
              THEN \* if (lock === 0) return false
                   /\ pc' = [pc EXCEPT ![f] = AfterHandle(f, FALSE)]
                   /\ current' = [current EXCEPT ![f] = NoTask]
                   /\ UNCHANGED preRetries
              ELSE /\ pc' = [pc EXCEPT ![f] = "run"]
                   /\ preRetries' = [preRetries EXCEPT
                                       ![f] = store[current[f].id].retries]
                   /\ UNCHANGED current
  /\ UNCHANGED <<now, held, nResets, resetFrom, brokerVars>>

\* handle(), third and fourth await: the handler runs to its end and its
\* outcome is written: update(result).where("id", current.id), or, for a
\* throw caught in the try block, update(process.error(e).task); return true
handleDispatch(f, choice) ==
  /\ pc[f] = "run"
  /\ LET r == Invoke(current[f], choice, now)
     IN  IF r.kind = "thrown" /\ ~Caught(current[f], r)
           THEN \* the failure leaves handle(): the loop's promise rejects
                /\ pc' = [pc EXCEPT ![f] = "rejected"]
                /\ UNCHANGED store
           ELSE /\ store' = Updated(store, current[f].id,
                                    Settle(current[f], r, now))
                /\ pc' = [pc EXCEPT ![f] = AfterHandle(f, TRUE)]
  /\ current' = [current EXCEPT ![f] = NoTask]
  /\ preRetries' = [preRetries EXCEPT ![f] = 0]
  /\ UNCHANGED <<now, held, nResets, resetFrom, brokerVars>>

\* ------------------------------------------------- store I/O failures --
\* the failure value of a store operation that rejects
ErrStore == [name |-> "Error", message |-> "store unavailable"]

\* handle(), first await: the select rejects; nothing in handle() catches it
handleSelectFails(f) ==
  /\ pc[f] = "select"
  /\ pc' = [pc EXCEPT ![f] = "rejected"]
  /\ UNCHANGED <<now, storeVars, brokerVars, current, preRetries>>

\* handle(), second await: the claim's update rejects
handleClaimFails(f) ==
  /\ pc[f] = "claim"
  /\ pc' = [pc EXCEPT ![f] = "rejected"]
  /\ current' = [current EXCEPT ![f] = NoTask]
  /\ UNCHANGED <<now, storeVars, brokerVars, preRetries>>

\* handle(), third and fourth await, the first outcome write rejecting.
\* After a handler that returned, update(result) is inside the try block: its
\* failure is caught and update(process.error(e).task) follows, which
\* succeeds (again = FALSE: return true) or rejects too (again = TRUE).
\* After a handler that threw, the first write is the one of the catch block.
handlePersistFails(f, choice, again) ==
  /\ pc[f] = "run"
  /\ LET r == Invoke(current[f], choice, now)
     IN  IF r.kind = "returned" /\ ~again
           THEN /\ store' = Updated(store, current[f].id,
                                    ProcessError(current[f], ErrStore, now))
                /\ pc' = [pc EXCEPT ![f] = AfterHandle(f, TRUE)]
           ELSE /\ pc' = [pc EXCEPT ![f] = "rejected"]
                /\ UNCHANGED store
  /\ current' = [current EXCEPT ![f] = NoTask]
  /\ preRetries' = [preRetries EXCEPT ![f] = 0]
  /\ UNCHANGED <<now, held, nResets, resetFrom, brokerVars>>

\* ----------------------------------------------------- specifications --
\* one broker from its construction on: createBroker, start, stop, its poll
\* loop, push
Solo == {"b1"}

Next ==
  \/ Tick
  \/ \E h \in HandlerNames, p \in Params, sa \in now..MaxTime : push(h, p, sa)
  \/ \E b \in Solo, o \in OptionValues : createBroker(b, o)
  \/ \E b \in Solo : start(b)
  \/ \E b \in Solo : stop(b)
  \/ \E f \in Flows : handleSelect(f)
  \/ \E f \in Flows : handleClaim(f)
  \/ \E f \in Flows, c \in Choices : handleDispatch(f, c)
  \/ \E f \in Flows : brokerWake(f)

Spec == Init /\ [][Next]_vars

\* the queue service under two started brokers, with push and resetAndRestart
QueueOptions(b) == IF b = "b1" THEN OptUndefined
                   ELSE OptInclude({"callCallBack"})

InitQueue ==
  /\ now = 0
  /\ store = << >>
  /\ held = << >>
  /\ nResets = 0
  /\ resetFrom = ""
  /\ broker = [b \in Brokers |-> "created"]
  /\ options = [b \in Brokers |-> QueueOptions(b)]
  /\ isStarted = [b \in Brokers |-> TRUE]
  /\ pc = [f \in Flows |-> IF f[2] = 1 THEN "select" ELSE "none"]
  /\ current = [f \in Flows |-> NoTask]
  /\ preRetries = [f \in Flows |-> 0]

NextQueue ==
  \/ Tick
  \/ \E h \in HandlerNames, p \in Params, sa \in now..MaxTime : push(h, p, sa)
  \/ \E i \in Ids : \E task \in Known(i) : resetAndRestart(task)
  \/ \E f \in Flows : handleSelect(f)
  \/ \E f \in Flows : handleClaim(f)
  \/ \E f \in Flows, c \in Choices : handleDispatch(f, c)
  \/ \E f \in Flows : brokerWake(f)

SpecQueue == InitQueue /\ [][NextQueue]_vars

\* one broker polling a table that already holds BatchSize Pending rows
Eligible(h, sa) == Task(0, h, "p1", sa, Pending, "", "", 0, 0, 0)

InitOrder ==
  /\ now = 0
  /\ \E rows \in [1..BatchSize -> {Eligible(h, sa) : h \in HandlerNames,
                                                    sa \in 0..MaxTime}] :
       store = [i \in 1..BatchSize |-> [rows[i] EXCEPT !.id = i]]
  /\ held = store
  /\ nResets = 0
  /\ resetFrom = ""
  /\ broker = [b \in Brokers |-> IF b \in Solo THEN "created" ELSE "absent"]
  /\ \E o \in OptionValues \ {OptString(Unregistered)} :
       options = [b \in Brokers |-> IF b \in Solo THEN o ELSE OptUndefined]
  /\ isStarted = [b \in Brokers |-> b \in Solo]
  /\ pc = [f \in Flows |-> IF f[1] \in Solo /\ f[2] = 1 THEN "select"
                           ELSE "none"]
  /\ current = [f \in Flows |-> NoTask]
  /\ preRetries = [f \in Flows |-> 0]

NextOrder ==
  \/ Tick
  \/ \E f \in Flows : handleSelect(f)
  \/ \E f \in Flows : handleClaim(f)
  \/ \E f \in Flows, c \in Choices : handleDispatch(f, c)
  \/ \E f \in Flows : brokerWake(f)

SpecOrder == InitOrder /\ [][NextOrder]_vars

\* two concurrent handle() calls (each the only call of a broker stopped
\* right after its start) against a table holding one eligible Pending row
TwoCalls == {<<"b1", 1>>, <<"b2", 1>>}

InitClaim ==
  /\ now \in 0..MaxTime
  /\ \E h \in HandlerNames, sa \in 0..now : \E ca \in 0..sa :
       store = << Task(1, h, "p1", sa, Pending, "", "", 0, ca, ca) >>
  /\ held = store
  /\ nResets = 0
  /\ resetFrom = ""
  /\ broker = [b \in Brokers |-> "created"]
  /\ options \in [Brokers -> OptionValues \ {OptString(Unregistered)}]
  /\ \A b \in Brokers : Matches(store[1], options[b], now)
  /\ isStarted = [b \in Brokers |-> FALSE]
  /\ pc = [f \in Flows |-> IF f \in TwoCalls THEN "select" ELSE "none"]
  /\ current = [f \in Flows |-> NoTask]
  /\ preRetries = [f \in Flows |-> 0]

NextClaim ==
  \/ Tick
  \/ \E f \in Flows : handleSelect(f)
  \/ \E f \in Flows : handleClaim(f)
  \/ \E f \in Flows, c \in Choices : handleDispatch(f, c)

SpecClaim == InitClaim /\ [][NextClaim]_vars

\* the two started brokers over a store whose operations may reject
NextIO ==
  \/ Tick
  \/ \E h \in HandlerNames, p \in Params, sa \in now..MaxTime : push(h, p, sa)
  \/ \E f \in Flows : handleSelect(f)
  \/ \E f \in Flows : handleClaim(f)
  \/ \E f \in Flows, c \in Choices : handleDispatch(f, c)
  \/ \E f \in Flows : brokerWake(f)
  \/ \E f \in Flows : handleSelectFails(f)
  \/ \E f \in Flows : handleClaimFails(f)
  \/ \E f \in Flows, c \in Choices, again \in BOOLEAN :
       handlePersistFails(f, c, again)

SpecIO == InitQueue /\ [][NextIO]_vars

\* the two started brokers, never stopped, over a store that does not fail,
\* with every pending step of a loop eventually taken: store operations
\* answer, handlers end, the interval timer fires
NextLive ==
  \/ Tick
  \/ \E h \in HandlerNames, p \in Params, sa \in now..MaxTime : push(h, p, sa)
  \/ \E f \in Flows : handleSelect(f)
  \/ \E f \in Flows : handleClaim(f)
  \/ \E f \in Flows, c \in Choices : handleDispatch(f, c)
  \/ \E f \in Flows : brokerWake(f)

Fairness ==
  \A f \in Flows :
    /\ WF_vars(handleSelect(f))
    /\ WF_vars(handleClaim(f))
    /\ WF_vars(\E c \in Choices : handleDispatch(f, c))
    /\ WF_vars(brokerWake(f))

SpecLive == InitQueue /\ [][NextLive]_vars /\ Fairness

\* ------------------------------------------------------------ claims --
Running(i) == {f \in Flows : pc[f] = "run" /\ current[f].id = i}

Finished == \A f \in TwoCalls : pc[f] \in {"none", "sleep"}

\* C1 (amended): with one eligible Pending row and two concurrent handle()
\* calls, at most one call is ever dispatching, it does so on a row it moved
\* to Process, and once both calls are over exactly one has returned true
\* after running the handler and persisting its outcome while the other has
\* returned false (from its select or from its claim) without running one.
C1_ClaimExclusive ==
  /\ Cardinality({f \in TwoCalls : pc[f] = "run"}) <= 1
  /\ \A f \in TwoCalls : pc[f] = "run" => store[current[f].id].status = Process
  /\ Finished =>
       /\ Cardinality({f \in TwoCalls : pc[f] = "none"}) = 1
       /\ Cardinality({f \in TwoCalls : pc[f] = "sleep"}) = 1
       /\ store[1].status \in {Done, Error}

\* C1 as stated: the same, and the call that returns false does so because
\* its claim changed 0 rows, so every call's select finds the candidate.
C1_LoserSeesFailedClaim ==
  /\ []C1_ClaimExclusive
  /\ [][\A f \in TwoCalls : handleSelect(f) => pc'[f] = "claim"]_vars

C1_Witness == Finished /\ store[1].status = Done /\ store[1].updatedAt = now

\* C2: a row is being executed (between a successful claim and the write of
\* the outcome) by at most one flow at a time.
C2_OneExecutor == \A i \in Ids : Cardinality(Running(i)) <= 1

\* C3: the handle() cycle that claimed a row leaves it with the retries it
\* had before the claim plus 1.
C3_RetriesPerClaim ==
  [][\A f \in Flows :
       pc[f] = "run" /\ pc'[f] \notin {"run", "rejected"}
         => store'[current[f].id].retries = preRetries[f] + 1]_vars

\* C4: a broker exists only with include and exclude lists of registered
\* handler names.
C4_NamesValidated ==
  \A b \in Brokers :
    broker[b] = "created"
      => (options[b].include \cup options[b].exclude) \subseteq Handlers

\* C5: a handler that returns a Done task has exactly that task stored by
\* handle(); a handler that throws has a row stored with status Error and a
\* non-empty error.
C5_OutcomePersisted ==
  [][\A f \in Flows, c \in Choices :
       handleDispatch(f, c) =>
         LET r  == Invoke(current[f], c, now)
             id == current[f].id
         IN  /\ r.kind = "returned" /\ r.task.status = Done
                  => store'[id] = r.task
             /\ r.kind = "thrown"
                  => store'[id].status = Error /\ store'[id].error # ""]_vars

C5_Witness ==
  \E i \in Ids : store[i].status = Done /\ store[i].updatedAt > store[i].createdAt

\* no row is Pending, due, and admitted by the filter o
NoneEligible(o) ==
  \A i \in Ids :
    \/ store[i].status # Pending
    \/ store[i].startAt > now
    \/ o.kind = "object" /\ o.include # {} /\ store[i].handler \notin o.include
    \/ o.kind = "object" /\ store[i].handler \in o.exclude

\* C6: a handle() call that finds no eligible row returns false (the broker
\* goes to sleep) and writes nothing.
C6_Idle ==
  [][\A f \in Flows :
       handleSelect(f) /\ NoneEligible(options[BrokerOf(f)])
         => /\ store' = store
            /\ pc'[f] = "sleep"
            /\ current'[f] = NoTask]_vars

C6_Witness ==
  \E f \in Flows :
    /\ pc[f] = "sleep"
    /\ Ids # {}
    /\ NoneEligible(options[BrokerOf(f)])
    /\ \E i \in Ids : store[i].status = Pending /\ store[i].startAt > now

\* C7 (amended): the row a handle(filter) call claims has a handler in
\* filter.include when include is given and not empty, and not in
\* filter.exclude when exclude is given.
C7_FilterRespected ==
  \A f \in Flows :
    pc[f] \in {"claim", "run"} =>
      LET o == options[BrokerOf(f)]
      IN  /\ o.hasInclude /\ o.include # {} => current[f].handler \in o.include
          /\ o.hasExclude => current[f].handler \notin o.exclude

\* C7 as stated: ... a handler in filter.include when include is given.
C7_FilterAsGiven ==
  \A f \in Flows :
    pc[f] \in {"claim", "run"} =>
      LET o == options[BrokerOf(f)]
      IN  /\ o.hasInclude => current[f].handler \in o.include
          /\ o.hasExclude => current[f].handler \notin o.exclude

C7_Witness ==
  \E f \in Flows :
    /\ pc[f] = "run"
    /\ options[BrokerOf(f)].hasInclude
    /\ options[BrokerOf(f)].hasExclude
    /\ current[f].handler \in options[BrokerOf(f)].include

\* C8: with a single poller, the row a handle() call selects has the least
\* startAt of the eligible rows; that row, and no other, is the one the call
\* moves to Process and the one whose outcome it writes.
C8_EarliestFirst ==
  [][\A f \in Flows :
       /\ handleSelect(f) /\ pc'[f] = "claim"
            => \A j \in Ids :
                 Matches(store[j], options[BrokerOf(f)], now)
                   => current'[f].startAt <= store[j].startAt
       /\ handleClaim(f)
            => /\ pc'[f] = "run"
               /\ store'[current[f].id].status = Process
               /\ \A j \in Ids : j # current[f].id => store'[j] = store[j]
       /\ pc[f] = "run" /\ pc'[f] # "run"
            => \A j \in Ids : j # current[f].id => store'[j] = store[j]]_vars

C8_Witness ==
  \E f \in Flows :
    /\ pc[f] = "run"
    /\ \E j \in Ids :
         /\ Matches(store[j], options[BrokerOf(f)], now)
         /\ store[j].startAt > current[f].startAt

\* C9: resetAndRestart of a row stored as Done or Error, given that row,
\* leaves it Pending with startAt the current time and an empty error, its
\* retries, id, handler and params as stored before.
C9_Reset ==
  [][\A i \in Ids :
       resetAndRestart(store[i]) /\ store[i].status \in {Done, Error}
         => /\ store'[i].status = Pending
            /\ store'[i].startAt = now
            /\ store'[i].error = ""
            /\ store'[i].retries = store[i].retries
            /\ store'[i].id = store[i].id
            /\ store'[i].handler = store[i].handler
            /\ store'[i].params = store[i].params]_vars

C9_Witness ==
  /\ resetFrom = "terminal"
  /\ \E i \in Ids : store[i].status = Pending /\ store[i].startAt = now

\* C10: dispatching a claimed row whose handler is not registered stores an
\* Error outcome on that row alone; handle() returns (the failure does not
\* leave it) and a started broker goes on to its next handle() call.
C10_UnknownHandler ==
  [][\A f \in Flows :
       pc[f] = "run" /\ pc'[f] # "run" /\ ~hasHandler(current[f].handler)
         => LET id == current[f].id
            IN  /\ store'[id].status = Error
                /\ store'[id].error # ""
                /\ \A j \in Ids : j # id => store'[j] = store[j]
                /\ pc'[f] # "rejected"
                /\ isStarted[BrokerOf(f)] => pc'[f] = "select"]_vars

C10_Witness ==
  \E i \in Ids :
    /\ store[i].status = Error
    /\ ~hasHandler(store[i].handler)
    /\ store[i].error = Describe(ErrNoHandler)
    /\ \E f \in Flows : pc[f] = "select"

\* C11: in a stopped broker (and with no start() in the step) no flow begins
\* a service.handle() call; a call in flight at stop() is not held back: its
\* next step can be taken, a claim that matches still leads to the dispatch,
\* and the dispatch writes a terminal outcome before the loop ends.
C11_CooperativeStop ==
  /\ [](\A f \in Flows :
          ~isStarted[BrokerOf(f)] =>
            /\ pc[f] = "select" => ENABLED handleSelect(f)
            /\ pc[f] = "claim" => ENABLED handleClaim(f)
            /\ pc[f] = "run" => ENABLED (\E c \in Choices : handleDispatch(f, c)))
  /\ [][\A f \in Flows :
          ~isStarted[BrokerOf(f)] =>
            /\ ~isStarted'[BrokerOf(f)] /\ pc[f] # "select" => pc'[f] # "select"
            /\ handleClaim(f) /\ store[current[f].id].status = Pending
                 => pc'[f] = "run"
            /\ pc[f] = "run" /\ pc'[f] # "run"
                 => /\ store'[current[f].id].status \in {Done, Error}
                    /\ pc'[f] = "none"]_vars

C11_Witness ==
  \E f \in Flows :
    /\ ~isStarted[BrokerOf(f)]
    /\ pc[f] = "run"
    /\ store[current[f].id].status = Process

\* the row of f's task, once f's handler succeeded, keeps what push returned
RoundTrip(f) ==
  LET id == current[f].id
  IN  /\ store'[id].status = Done
      /\ store'[id].id = held[id].id
      /\ store'[id].handler = held[id].handler
      /\ store'[id].params = held[id].params

\* C12 (amended): push(h, p), one handle() whose handler succeeds, and a
\* fetch by id give a row with the handler and params pushed, status Done,
\* and updatedAt not before createdAt: later when the clock advanced between
\* the push and the handler's end, equal to it when it did not.
C12_RoundTrip ==
  [][\A f \in Flows :
       handleDispatch(f, "done") /\ hasHandler(current[f].handler)
         => LET id == current[f].id
            IN  /\ RoundTrip(f)
                /\ store'[id].updatedAt >= store'[id].createdAt
                /\ now > store'[id].createdAt
                     => store'[id].updatedAt > store'[id].createdAt]_vars

\* C12 as stated: ... and updatedAt strictly greater than createdAt.
C12_RoundTripStrict ==
  [][\A f \in Flows :
       handleDispatch(f, "done") /\ hasHandler(current[f].handler)
         => /\ RoundTrip(f)
            /\ store'[current[f].id].updatedAt
                 > store'[current[f].id].createdAt]_vars

C12_Witness ==
  \E i \in Ids :
    /\ store[i].status = Done
    /\ store[i].handler = held[i].handler
    /\ store[i].params = held[i].params
    /\ store[i].updatedAt = store[i].createdAt

\* the loops of broker b that have not ended
Active(b) == {f \in Flows : BrokerOf(f) = b /\ pc[f] \notin {"none", "rejected"}}

\* the service.handle() calls of broker b in flight
InFlight(b) ==
  {f \in Flows : BrokerOf(f) = b /\ pc[f] \in {"select", "claim", "run"}}

\* C13: under any sequence of start() and stop() calls a broker has at most
\* one poll loop active and at most one service.handle() call in flight.
C13_SingleFlow ==
  \A b \in Brokers : Cardinality(Active(b)) <= 1 /\ Cardinality(InFlight(b)) <= 1

\* the status changes of the task state machine
Transitions ==
  { <<Pending, Process>>, <<Process, Done>>, <<Process, Error>>,
    <<Done, Pending>>, <<Error, Pending>> }

\* C14: every change of a stored row's status is Pending -> Process,
\* Process -> Done, Process -> Error, Done -> Pending or Error -> Pending.
C14_StatusMachine ==
  [][\A i \in Ids :
       store'[i].status # store[i].status
         => <<store[i].status, store'[i].status>> \in Transitions]_vars

\* C15: no step lowers the stored retries of a row.
C15_RetriesMonotone ==
  [][\A i \in Ids : store'[i].retries >= store[i].retries]_vars

\* the dispatch result r is a failure: a throw, or a returned Error task
Failed(r) == r.kind = "thrown" \/ r.task.status = Error

\* C16: when the dispatch of a claimed row fails (the handler throws or
\* returns a failure), handle() stores a terminal Error record with the
\* failure's description and returns: the loop's promise does not reject,
\* and the loop of a started broker issues its next handle() call.
C16_LoopSurvives ==
  [][\A f \in Flows, c \in Choices :
       handleDispatch(f, c) /\ Failed(Invoke(current[f], c, now))
         => LET id == current[f].id
            IN  /\ store'[id].status = Error
                /\ store'[id].error
                     \in {Describe(ErrHandler), Describe(ErrNoHandler)}
                /\ pc'[f] # "rejected"
                /\ isStarted[BrokerOf(f)] => pc'[f] = "select"]_vars

C16_Witness ==
  \E i \in Ids, f \in Flows :
    /\ store[i].status = Error
    /\ store[i].error = Describe(ErrHandler)
    /\ isStarted[BrokerOf(f)]
    /\ pc[f] = "select"

\* f's claim changes one row: its candidate, from Pending to Process
ClaimChangesRow(f) ==
  LET id == current[f].id
  IN  /\ store[id].status = Pending
      /\ store'[id].status = Process
      /\ \A j \in Ids : j # id => store'[j] = store[j]

\* C17: handle() returns false (the loop goes to its backoff sleep) exactly
\* when its select finds no candidate or its claim changes 0 rows; a claim
\* that changes one row leads to the dispatch, and after the dispatch,
\* whatever its result, handle() returns true (the loop goes to its next
\* isStarted check, not to the sleep).
C17_ReturnValue ==
  [][\A f \in Flows :
       /\ handleSelect(f)
            => /\ pc'[f] = "sleep"
                    <=> ~\E i \in Ids : Matches(store[i], options[BrokerOf(f)], now)
               /\ pc'[f] \in {"sleep", "claim"}
       /\ handleClaim(f)
            => /\ pc'[f] = "run" <=> ClaimChangesRow(f)
               /\ pc'[f] = "sleep" <=> store' = store
               /\ pc'[f] \in {"sleep", "run"}
       /\ (\E c \in Choices : handleDispatch(f, c))
            => /\ pc'[f] = Loop(f)
               /\ store'[current[f].id].status \in {Done, Error}]_vars

C17_Witness ==
  \E f \in Flows, g \in Flows :
    /\ f # g
    /\ pc[f] = "claim"
    /\ store[current[f].id].status \in {Done, Error}
    /\ pc[g] = "select"

\* C18: a handle() call that returns false (from its select or its claim)
\* puts the loop in its backoff sleep, which only the firing of the interval
\* timer ends, and only then, in a started broker, is the next call issued;
\* a call that returns true is followed at once, in a started broker, by the
\* next call.
C18_Backoff ==
  [][\A f \in Flows :
       /\ (handleSelect(f) \/ handleClaim(f)) /\ pc'[f] \notin {"claim", "run"}
            => pc'[f] = "sleep"
       /\ pc[f] = "sleep" /\ pc'[f] # "sleep"
            => /\ brokerWake(f)
               /\ pc'[f] = IF isStarted[BrokerOf(f)] THEN "select" ELSE "none"
       /\ pc[f] = "run" /\ pc'[f] # "run" /\ isStarted[BrokerOf(f)]
            => pc'[f] = "select"]_vars

C18_Witness ==
  \E f \in Flows :
    /\ pc[f] = "sleep"
    /\ isStarted[BrokerOf(f)]
    /\ \E i \in Ids : store[i].status \in {Done, Error}

\* C19: a handle() call one of whose store operations (select, claim,
\* outcome write) rejects ends in a failure of the call: it does not return
\* false to the backoff sleep, and it does not return true.
C19_StoreFailurePropagates ==
  [][\A f \in Flows :
       \/ handleSelectFails(f)
       \/ handleClaimFails(f)
       \/ \E c \in Choices, again \in BOOLEAN : handlePersistFails(f, c, again)
       => pc'[f] = "rejected"]_vars

\* broker b's filter admits rows of handler h
Admits(b, h) ==
  /\ IncludeApplies(options[b]) => h \in options[b].include
  /\ ExcludeApplies(options[b]) => h \notin options[b].exclude

\* C20: with a started broker whose filter admits its handler, a pushed row
\* whose startAt is reached is eventually stored as Done or Error.
C20_Progress ==
  \A i \in 1..MaxTasks :
    (/\ i \in Ids
     /\ store[i].startAt <= now
     /\ \E b \in Brokers : isStarted[b] /\ Admits(b, store[i].handler))
      ~> (i \in Ids /\ store[i].status \in {Done, Error})

C20_Witness ==
  \E i \in Ids :
    /\ store[i].status \in {Done, Error}
    /\ store[i].startAt > store[i].createdAt
    /\ \E b \in Brokers : isStarted[b] /\ Admits(b, store[i].handler)

=============================================================================
